---- MODULE Spec2Model ----
(***************************************************************************)
(* A model of fasta_kmer_counter.py: the fallback FASTA parser (a          *)
(* generator), build_kmer_table (the consumer of the generator),           *)
(* write_kmer_table and the __main__ block that runs them in sequence.     *)
(*                                                                         *)
(* Python strings are sequences of one-character strings.  The input file  *)
(* is the sequence of its raw lines, as iteration over a text file gives   *)
(* them: every line but possibly the last ends with "\n".  The output      *)
(* destination is the sequence of characters it holds.  A Counter is the   *)
(* sequence of its <<key, count>> items in insertion order.                *)
(***************************************************************************)
EXTENDS Integers, Sequences, FiniteSets, TLC

\* ---------------------------------------------------------------- bounds
MaxLines == 4
MaxK == 2
MaxNegK == 1
MaxRuns == 2

\* ------------------------------------------------------- string helpers
NL == "\n"
TAB == "\t"

\* Code points of the characters that occur in the model.
Ord(c) ==
  CASE c = "\t" -> 9  [] c = "\n" -> 10 [] c = " " -> 32
    [] c = "0" -> 48  [] c = "1" -> 49  [] c = "2" -> 50 [] c = "3" -> 51
    [] c = "4" -> 52  [] c = "5" -> 53  [] c = "6" -> 54 [] c = "7" -> 55
    [] c = "8" -> 56  [] c = "9" -> 57  [] c = ">" -> 62
    [] c = "A" -> 65  [] c = "C" -> 67  [] c = "G" -> 71 [] c = "N" -> 78
    [] c = "S" -> 83  [] c = "T" -> 84  [] c = "X" -> 88
    [] c = "a" -> 97  [] c = "c" -> 99  [] c = "g" -> 103 [] c = "n" -> 110
    [] c = "s" -> 115 [] c = "t" -> 116 [] c = "x" -> 120

\* str.upper() on one character.
UpperChar(c) ==
  CASE c = "a" -> "A" [] c = "c" -> "C" [] c = "g" -> "G" [] c = "n" -> "N"
    [] c = "s" -> "S" [] c = "t" -> "T" [] c = "x" -> "X" [] OTHER -> c

\* str.upper()
upper(s) == [n \in 1..Len(s) |-> UpperChar(s[n])]

\* The characters str.strip() removes.
IsSpace(c) == c \in {" ", "\t", "\n"}

RECURSIVE lstrip(_)
lstrip(s) == IF s # <<>> /\ IsSpace(Head(s)) THEN lstrip(Tail(s)) ELSE s

RECURSIVE rstrip(_)
rstrip(s) ==
  IF s # <<>> /\ IsSpace(s[Len(s)]) THEN rstrip(SubSeq(s, 1, Len(s) - 1)) ELSE s

\* str.strip()
strip(s) == lstrip(rstrip(s))

\* str.rstrip("\n")
RECURSIVE rstripNL(_)
rstripNL(s) ==
  IF s # <<>> /\ s[Len(s)] = NL THEN rstripNL(SubSeq(s, 1, Len(s) - 1)) ELSE s

\* str.startswith(">")
startswith(s) == s # <<>> /\ Head(s) = ">"

\* "".join(parts)
RECURSIVE join(_)
join(parts) == IF parts = <<>> THEN <<>> ELSE Head(parts) \o join(Tail(parts))

\* s[lo:hi] for lo >= 0: a negative hi counts from the end, both ends are
\* clamped to the string, and an empty range gives the empty string.
PySlice(s, lo, hi) ==
  LET n == Len(s)
      h0 == IF hi < 0 THEN hi + n ELSE hi
      h1 == IF h0 < 0 THEN 0 ELSE IF h0 > n THEN n ELSE h0
      l1 == IF lo > n THEN n ELSE lo
  IN  IF l1 >= h1 THEN <<>> ELSE SubSeq(s, l1 + 1, h1)

\* len(range(n))
RangeLen(n) == IF n > 0 THEN n ELSE 0

\* Python's < on strings: by code point, a proper prefix is smaller.
RECURSIVE StrLess(_, _)
StrLess(a, b) ==
  IF b = <<>> THEN FALSE
  ELSE IF a = <<>> THEN TRUE
  ELSE IF Head(a) # Head(b) THEN Ord(Head(a)) < Ord(Head(b))
  ELSE StrLess(Tail(a), Tail(b))

\* str(n) for n >= 0
Digit(d) ==
  CASE d = 0 -> "0" [] d = 1 -> "1" [] d = 2 -> "2" [] d = 3 -> "3"
    [] d = 4 -> "4" [] d = 5 -> "5" [] d = 6 -> "6" [] d = 7 -> "7"
    [] d = 8 -> "8" [] d = 9 -> "9"

RECURSIVE str(_)
str(n) == IF n < 10 THEN <<Digit(n)>> ELSE str(n \div 10) \o <<Digit(n % 10)>>


\* ------------------------------------------------------------ Counter
\* A Counter is the sequence of its items <<key, count>> in insertion order.
Keys(c) == {c[n][1] : n \in 1..Len(c)}

\* c[key], with the Counter's 0 for a missing key
Get(c, key) ==
  IF key \in Keys(c)
  THEN LET n == CHOOSE m \in 1..Len(c) : c[m][1] = key IN c[n][2]
  ELSE 0

\* The permitted symbols (allowed = set("ACGT")).
allowed == {"A", "C", "G", "T"}

\* set(kmer) <= allowed
IsAllowedAny(kmer) == TRUE
IsAllowed(kmer) == {kmer[n] : n \in 1..Len(kmer)} \subseteq allowed

\* total[kmer] += 1: an existing key keeps its place, a new key is appended.
IncrementReset(c, key) ==
  IF key \in Keys(c)
  THEN [n \in 1..Len(c) |-> IF c[n][1] = key THEN <<key, 1>> ELSE c[n]]
  ELSE Append(c, <<key, 1>>)
Increment(c, key) ==
  IF key \in Keys(c)
  THEN [n \in 1..Len(c) |-> IF c[n][1] = key THEN <<key, c[n][2] + 1>> ELSE c[n]]
  ELSE Append(c, <<key, 1>>)

\* len(range(len(seq) - k + 1)): the number of windows the inner loop visits.
NumWindowsNoK(s, kk) == RangeLen(Len(s))
NumWindows(s, kk) == RangeLen(Len(s) - kk + 1)

\* kmer = seq[i : i + k]
Window(s, n, kk) == PySlice(s, n, n + kk)

\* Python's < on the (kmer, count) tuples that sorted() compares.
ItemGreater(a, b) == StrLess(b[1], a[1]) \/ (a[1] = b[1] /\ b[2] < a[2])
ItemLess(a, b) == StrLess(a[1], b[1]) \/ (a[1] = b[1] /\ a[2] < b[2])

\* Insert item x into the sorted list s (before the first item above it).
RECURSIVE Insert(_, _)
Insert(s, x) ==
  IF s = <<>> THEN <<x>>
  ELSE IF ItemLess(x, Head(s)) THEN <<x>> \o s
  ELSE <<Head(s)>> \o Insert(Tail(s), x)

RECURSIVE SortFrom(_, _)
SortFrom(acc, rest) ==
  IF rest = <<>> THEN acc ELSE SortFrom(Insert(acc, Head(rest)), Tail(rest))

\* sorted(counter.items())
Unsorted(c) == c
sorted(c) == SortFrom(<<>>, c)

\* f"{kmer}\t{count}\n"
FormatLineNoNL(item) == item[1] \o <<TAB>> \o str(item[2])
FormatLine(item) == item[1] \o <<TAB>> \o str(item[2]) \o <<NL>>

\* open(outfile, "w") on a destination holding `content`: what it holds after.
OpenAppend(content) == content
OpenTruncate(content) == <<>>

\* ------------------------------------------------------- parser pieces
\* header is None (<<>>) or a string (<<name>>).
None == <<>>
Some(x) == <<x>>

\* `header is not None`
HeaderTruthy(h) == h # None /\ h[1] # <<>>
HeaderIsSet(h) == h # None

\* header = line[1:].strip()
HeaderName(line) == strip(Tail(line))

\* seq_parts = [] when a header line starts a new record
KeepParts(parts) == parts
PartsAfterHeader(parts) == <<>>

\* ---------------------------------------------------------------- state
VARIABLES
  file,       \* the input file: its raw lines
  k,          \* args.k
  outfile,    \* the characters the output destination holds
  pc,         \* where the program is
  gen,        \* where the parse_fasta generator is
  lineNo,     \* the number of lines the generator has read
  header,     \* parse_fasta's header
  seq_parts,  \* parse_fasta's seq_parts
  seq,        \* build_kmer_table's seq (uppercased)
  i,          \* build_kmer_table's i
  total,      \* build_kmer_table's total, then main's table
  items,      \* write_kmer_table's sorted(counter.items())
  j,          \* the number of items written
  yielded,    \* history: the records parse_fasta has yielded this run
  counted,    \* history: for each yielded record, the increments it caused
  written,    \* history: everything passed to f.write this run
  dest0,      \* history: what the destination held when this run started
  run,        \* the number of this run of the tool
  prevFile,   \* history: the previous run's input
  prevTotal,  \* history: the previous completed run's table
  prevOut     \* history: the destination after the previous completed run

vars == <<file, k, outfile, pc, gen, lineNo, header, seq_parts, seq, i, total,
          items, j, yielded, counted, written, dest0, run, prevFile, prevTotal,
          prevOut>>

parserVars == <<gen, lineNo, header, seq_parts>>
writerVars == <<outfile, items, j, written>>
inputVars == <<file, k, run, prevFile, prevTotal, prevOut, dest0>>

\* ---------------------------------------------------------------- inputs
SeqsUpTo(S, n) == UNION {[1..m -> S] : m \in 0..n}

\* The raw lines of a text file whose lines are ls; nl says whether the last
\* line ends with a newline (an empty last line without one is no line).
MkFile(ls, nl) ==
  LET raw == [n \in 1..Len(ls) |->
                IF n < Len(ls) \/ nl THEN ls[n] \o <<NL>> ELSE ls[n]]
  IN  IF raw # <<>> /\ raw[Len(raw)] = <<>>
      THEN SubSeq(raw, 1, Len(raw) - 1) ELSE raw

KValues == (0 - MaxNegK)..MaxK

\* What the destination may hold before the first run.
OldContent == <<"x", NL>>

\* Lines for the counting runs: headers, canonical, lower-case and
\* ambiguous bases.
CountLines ==
  { <<">", "s">>, <<"A", "C">>, <<"c", "A">>, <<"N", "a">>,
    <<"A", "A", "A", "A", "A">> }

\* Lines for the parsing runs: headers with and without names and
\* surrounding blanks, blank and blank-padded lines, and a line whose '>'
\* is not its first character.
ParseLines ==
  { <<">">>, <<">", " ", "s", " ">>, <<>>, <<" ", "a", " ">>, <<" ">>,
    <<" ", ">">> }

\* The k of the parsing runs: the largest k, above the length of their
\* one-symbol records.
ParseKs == {MaxK}

InitWith(Lines, NLs, Ks, Dests) ==
  /\ file \in {MkFile(ls, nl) : ls \in SeqsUpTo(Lines, MaxLines), nl \in NLs}
  /\ k \in Ks
  /\ outfile \in Dests
  /\ dest0 = outfile
  /\ pc = "start"
  /\ gen = "new"
  /\ lineNo = 0
  /\ header = None
  /\ seq_parts = <<>>
  /\ seq = <<>>
  /\ i = 0
  /\ total = <<>>
  /\ items = <<>>
  /\ j = 0
  /\ yielded = <<>>
  /\ counted = <<>>
  /\ written = <<>>
  /\ run = 1
  /\ prevFile = <<>>
  /\ prevTotal = <<>>
  /\ prevOut = <<>>

Init == InitWith(CountLines, {TRUE}, KValues, {<<>>, OldContent})

InitParse == InitWith(ParseLines, {TRUE, FALSE}, ParseKs, {OldContent})

\* ------------------------------------------------- shuffling the records
\* The current line of the generator's loop, after line.rstrip("\n").
LineAt(f, n) == rstripNL(f[n])

HeaderLines(f) == {n \in 1..Len(f) : startswith(LineAt(f, n))}

\* The n-th smallest element of the set of numbers S.
Nth(S, n) == CHOOSE x \in S : Cardinality({y \in S : y < x}) = n - 1

\* The lines of the b-th record of f: its header line up to the next one.
Block(f, b) ==
  LET H == HeaderLines(f)
      lo == Nth(H, b)
      hi == IF b < Cardinality(H) THEN Nth(H, b + 1) - 1 ELSE Len(f)
  IN  SubSeq(f, lo, hi)

\* The lines before the first header line.
Preamble(f) ==
  IF HeaderLines(f) = {} THEN f ELSE SubSeq(f, 1, Nth(HeaderLines(f), 1) - 1)

\* f with its last line ended by a newline, so that lines can be moved.
Terminated(f) ==
  IF f # <<>> /\ f[Len(f)][Len(f[Len(f)])] # NL
  THEN [f EXCEPT ![Len(f)] = @ \o <<NL>>] ELSE f

Perms(n) == {p \in [1..n -> 1..n] : \A a, b \in 1..n : p[a] = p[b] => a = b}

RECURSIVE BlocksFrom(_, _, _)
BlocksFrom(f, p, b) ==
  IF b > Len(p) THEN <<>> ELSE Block(f, p[b]) \o BlocksFrom(f, p, b + 1)

\* The file f with its records in the order p, each record's lines unchanged.
Shuffle(f, p) ==
  IF \A b \in DOMAIN p : p[b] = b THEN f
  ELSE Preamble(Terminated(f)) \o BlocksFrom(Terminated(f), p, 1)

\* -------------------------------------------------------------- actions
\* main calls build_kmer_table: total = Counter(), and parse_fasta(path)
\* makes the generator without running it.
BuildStart ==
  /\ pc = "start"
  /\ pc' = "next"
  /\ gen' = "new"
  /\ total' = <<>>
  /\ UNCHANGED <<lineNo, header, seq_parts, seq, i, yielded, counted>>
  /\ UNCHANGED <<writerVars, inputVars>>

\* The first next() on the generator: header = None, seq_parts = [], open.
GenStart ==
  /\ pc = "next" /\ gen = "new"
  /\ gen' = "loop"
  /\ lineNo' = 0
  /\ header' = None
  /\ seq_parts' = <<>>
  /\ UNCHANGED <<pc, seq, i, total, yielded, counted, writerVars, inputVars>>

\* open(path) or a read of the input raises: the run ends with the error.
InputFail ==
  /\ pc = "next" /\ gen \in {"new", "loop"}
  /\ pc' = "read_error"
  /\ gen' = "end"
  /\ UNCHANGED <<lineNo, header, seq_parts, seq, i, total, yielded, counted>>
  /\ UNCHANGED <<writerVars, inputVars>>

\* The generator hands a record to build_kmer_table's loop, which
\* uppercases the sequence and starts the scan.
Yield(at) ==
  /\ gen' = at
  /\ pc' = "scan"
  /\ yielded' = Append(yielded, <<header[1], join(seq_parts)>>)
  /\ counted' = Append(counted, 0)
  /\ seq' = upper(join(seq_parts))
  /\ i' = 0

\* One iteration of `for line in fh`.
GenLine ==
  /\ pc = "next" /\ gen = "loop" /\ lineNo < Len(file)
  /\ lineNo' = lineNo + 1
  /\ LET line == LineAt(file, lineNo + 1) IN
       IF line = <<>>
       THEN UNCHANGED <<pc, gen, header, seq_parts, seq, i, yielded, counted>>
       ELSE IF startswith(line)
       THEN IF HeaderIsSet(header)
            THEN Yield("y60") /\ UNCHANGED <<header, seq_parts>>
            ELSE /\ header' = Some(HeaderName(line))
                 /\ seq_parts' = PartsAfterHeader(seq_parts)
                 /\ UNCHANGED <<pc, gen, seq, i, yielded, counted>>
       ELSE /\ seq_parts' = Append(seq_parts, strip(line))
            /\ UNCHANGED <<pc, gen, header, seq, i, yielded, counted>>
  /\ UNCHANGED <<total, writerVars, inputVars>>

\* The loop over the file is exhausted: the last record, if any, is yielded;
\* otherwise the generator ends and build_kmer_table returns total.
GenEOF ==
  /\ pc = "next" /\ gen = "loop" /\ lineNo = Len(file)
  /\ IF HeaderIsSet(header)
     THEN Yield("y66")
     ELSE /\ gen' = "end"
          /\ pc' = "write"
          /\ UNCHANGED <<seq, i, yielded, counted>>
  /\ UNCHANGED <<lineNo, header, seq_parts, total, writerVars, inputVars>>

\* next() on the suspended generator: after the yield of line 60 it starts
\* the new record; after the yield of line 66 it ends.
GenResume ==
  /\ pc = "next" /\ gen \in {"y60", "y66"}
  /\ IF gen = "y60"
     THEN /\ header' = Some(HeaderName(LineAt(file, lineNo)))
          /\ seq_parts' = PartsAfterHeader(seq_parts)
          /\ gen' = "loop"
          /\ UNCHANGED pc
     ELSE /\ gen' = "end"
          /\ pc' = "write"
          /\ UNCHANGED <<header, seq_parts>>
  /\ UNCHANGED <<lineNo, seq, i, total, yielded, counted, writerVars, inputVars>>

\* One iteration of `for i in range(len(seq) - k + 1)`.
ScanWindow ==
  /\ pc = "scan" /\ i < NumWindows(seq, k)
  /\ LET kmer == Window(seq, i, k) IN
       IF IsAllowed(kmer)
       THEN /\ total' = Increment(total, kmer)
            /\ counted' = [counted EXCEPT ![Len(counted)] = @ + 1]
       ELSE UNCHANGED <<total, counted>>
  /\ i' = i + 1
  /\ UNCHANGED <<pc, seq, yielded, parserVars, writerVars, inputVars>>

\* The range is exhausted: back to the outer loop for the next record.
ScanEnd ==
  /\ pc = "scan" /\ i >= NumWindows(seq, k)
  /\ pc' = "next"
  /\ UNCHANGED <<seq, i, total, yielded, counted>>
  /\ UNCHANGED <<parserVars, writerVars, inputVars>>

\* write_kmer_table: open(outfile, "w") and sorted(counter.items()).
OpenOutput ==
  /\ pc = "write"
  /\ pc' = "writing"
  /\ outfile' = OpenTruncate(outfile)
  /\ items' = sorted(total)
  /\ j' = 0
  /\ written' = <<>>
  /\ UNCHANGED <<seq, i, total, yielded, counted, parserVars, inputVars>>

\* open(outfile, "w") raises: the destination is as it was.
OpenOutputFail ==
  /\ pc = "write"
  /\ pc' = "write_error"
  /\ UNCHANGED <<seq, i, total, yielded, counted>>
  /\ UNCHANGED <<parserVars, writerVars, inputVars>>

\* One f.write of the loop.
WriteLine ==
  /\ pc = "writing" /\ j < Len(items)
  /\ outfile' = outfile \o FormatLine(items[j + 1])
  /\ written' = written \o FormatLine(items[j + 1])
  /\ j' = j + 1
  /\ UNCHANGED <<pc, items, seq, i, total, yielded, counted>>
  /\ UNCHANGED <<parserVars, inputVars>>

\* f.write (or the flush on close) raises: the with block closes the file
\* and the error ends the run.
WriteFail ==
  /\ pc = "writing"
  /\ pc' = "write_error"
  /\ UNCHANGED <<seq, i, total, yielded, counted>>
  /\ UNCHANGED <<parserVars, writerVars, inputVars>>

\* The loop is over and the with block closes the file.
CloseOutput ==
  /\ pc = "writing" /\ j = Len(items)
  /\ pc' = "done"
  /\ UNCHANGED <<seq, i, total, yielded, counted>>
  /\ UNCHANGED <<parserVars, writerVars, inputVars>>

\* The tool is run again with the same k and output destination, on the
\* same file or on the file with its records in another order.
Rerun ==
  /\ pc = "done" /\ run < MaxRuns
  /\ \E p \in Perms(Cardinality(HeaderLines(file))) : file' = Shuffle(file, p)
  /\ run' = run + 1
  /\ prevFile' = file
  /\ prevTotal' = total
  /\ prevOut' = outfile
  /\ dest0' = outfile
  /\ pc' = "start"
  /\ gen' = "new"
  /\ lineNo' = 0
  /\ header' = None
  /\ seq_parts' = <<>>
  /\ seq' = <<>>
  /\ i' = 0
  /\ total' = <<>>
  /\ items' = <<>>
  /\ j' = 0
  /\ yielded' = <<>>
  /\ counted' = <<>>
  /\ written' = <<>>
  /\ UNCHANGED <<k, outfile>>

Next ==
  \/ BuildStart
  \/ GenStart
  \/ InputFail
  \/ GenLine
  \/ GenEOF
  \/ GenResume
  \/ ScanWindow
  \/ ScanEnd
  \/ OpenOutput
  \/ OpenOutputFail
  \/ WriteLine
  \/ WriteFail
  \/ CloseOutput
  \/ Rerun

Spec == Init /\ [][Next]_vars

SpecParse == InitParse /\ [][Next]_vars

\* ------------------------------------------------- what the claims expect
\* The program positions after build_kmer_table has returned its table.
Built == pc \in {"write", "writing", "done", "write_error"}

Canonical(c) == c \in {"A", "C", "G", "T"}

\* The uppercased window of length kk at offset n of bases, read symbol by
\* symbol (n + kk <= Len(bases)).
WindowOf(bases, n, kk) == [m \in 1..kk |-> UpperChar(bases[n + m])]

\* The (record, offset) pairs of full-length windows made of canonical
\* symbols only.
ValidWindows(recs, kk) ==
  UNION { { <<r, n>> : n \in { m \in 0..(Len(recs[r][2]) - kk) :
                                 \A q \in 1..kk :
                                   Canonical(UpperChar(recs[r][2][m + q])) } }
          : r \in 1..Len(recs) }

RECURSIVE SumCounts(_)
SumCounts(c) == IF c = <<>> THEN 0 ELSE Head(c)[2] + SumCounts(Tail(c))

\* The Counter as a mapping: the set of its items, whatever their order.
TableMap(c) == {c[n] : n \in 1..Len(c)}

\* C1: for k >= 1 the table build_kmer_table returns has exactly the k-mers
\* of the valid windows as keys, each key once, each with the number of
\* (record, offset) pairs whose uppercased window is that k-mer, so that the
\* counts sum to the number of valid windows; windows holding any other
\* symbol count nothing.
C1_CountsAreWindowCounts ==
  (k >= 1 /\ Built) =>
    LET W == ValidWindows(yielded, k)
        At(o) == WindowOf(yielded[o[1]][2], o[2], k)
    IN  /\ Keys(total) = {At(o) : o \in W}
        /\ Len(total) = Cardinality(Keys(total))
        /\ \A key \in Keys(total) :
             Get(total, key) = Cardinality({o \in W : At(o) = key})
        /\ SumCounts(total) = Cardinality(W)

\* Two records, a k-mer counted more than once, and a window left out
\* because of a symbol outside A, C, G, T.
C1_Witness ==
  /\ pc = "done" /\ k >= 1 /\ Len(yielded) >= 2
  /\ \E n \in 1..Len(total) : total[n][2] >= 2
  /\ \E r \in 1..Len(yielded) :
       Len(yielded[r][2]) - k + 1 > Cardinality({o \in ValidWindows(yielded, k) : o[1] = r})

\* C2: for k >= 1, in every state, every key of the table has length k and
\* only the symbols A, C, G, T, and every count is at least 1.
C2_KeysAreKmers ==
  k >= 1 =>
    \A n \in 1..Len(total) :
      /\ Len(total[n][1]) = k
      /\ \A m \in 1..Len(total[n][1]) : total[n][1][m] \in {"A", "C", "G", "T"}
      /\ total[n][2] >= 1

\* In the middle of a scan, after increments, with a symbol outside the
\* permitted set in the sequence being scanned.
C2_Witness ==
  /\ pc = "scan" /\ k >= 1 /\ i >= 2 /\ Len(total) >= 2
  /\ \E n \in 1..Len(seq) : seq[n] = "N"

\* C3: a run with k <= 0 is rejected before any processing: no record is
\* scanned, no table entry is made, the destination is not opened.
C3_NonPositiveKRejected ==
  k <= 0 =>
    /\ yielded = <<>>
    /\ total = <<>>
    /\ pc \notin {"scan", "writing", "done"}
    /\ outfile = dest0

\* The lines of text: the pieces ended by a newline, and what follows the
\* last newline if anything does.
RECURSIVE SplitLines(_, _)
SplitLines(text, cur) ==
  IF text = <<>> THEN (IF cur = <<>> THEN <<>> ELSE <<cur>>)
  ELSE IF Head(text) = NL THEN <<cur \o <<NL>>>> \o SplitLines(Tail(text), <<>>)
  ELSE SplitLines(Tail(text), Append(cur, Head(text)))

\* The position of the first tab of a line, 0 if it has none.
FirstTab(line) ==
  IF \E n \in 1..Len(line) : line[n] = TAB
  THEN CHOOSE n \in 1..Len(line) :
         line[n] = TAB /\ \A m \in 1..(n - 1) : line[m] # TAB
  ELSE 0

DigitValue(c) == Ord(c) - 48

\* The number a string of decimal digits denotes.
RECURSIVE ParseDec(_)
ParseDec(d) ==
  IF d = <<>> THEN 0
  ELSE 10 * ParseDec(SubSeq(d, 1, Len(d) - 1)) + DigitValue(d[Len(d)])

\* line is <kmer> TAB <count> NL with <count> a decimal numeral.
WellFormedLine(line) ==
  LET t == FirstTab(line) IN
    /\ t > 0
    /\ Len(line) >= t + 2
    /\ line[Len(line)] = NL
    /\ \A n \in (t + 1)..(Len(line) - 1) : Ord(line[n]) \in 48..57
    /\ (Len(line) > t + 2 => line[t + 1] # "0")

LineKmer(line) == SubSeq(line, 1, FirstTab(line) - 1)
LineCount(line) == ParseDec(SubSeq(line, FirstTab(line) + 1, Len(line) - 1))

\* C5: what write_kmer_table has written when it is done is one line per
\* table entry, each <kmer> TAB <count> NL with the count the table holds for
\* that k-mer, and the k-mers of the lines are strictly ascending, so none
\* appears twice.
C5_SortedLines ==
  pc = "done" =>
    LET L == SplitLines(written, <<>>) IN
      /\ Len(L) = Len(total)
      /\ \A n \in 1..Len(L) :
           /\ WellFormedLine(L[n])
           /\ LineKmer(L[n]) \in Keys(total)
           /\ LineCount(L[n]) = Get(total, LineKmer(L[n]))
      /\ {LineKmer(L[n]) : n \in 1..Len(L)} = Keys(total)
      /\ \A n \in 1..(Len(L) - 1) : StrLess(LineKmer(L[n]), LineKmer(L[n + 1]))

\* A table whose insertion order is not the sorted order, with a count of
\* two digits.
C5_Witness ==
  /\ pc = "done" /\ k >= 1 /\ Len(total) >= 2 /\ items # total
  /\ \E n \in 1..Len(total) : total[n][2] >= 10

\* C4: a run has no partial-failure outcome: a run that ends in an error has
\* done nothing to the destination, and a run that ends without one has left
\* the complete table in it (stated for the runs with a valid k).
C4_NoPartialOutput ==
  k >= 1 =>
    /\ pc \in {"read_error", "write_error"} => outfile = dest0
    /\ pc = "done" => Len(SplitLines(outfile, <<>>)) = Len(total)

\* C6: for k >= 1, a run on the same records in another order builds the
\* same table (the same keys with the same counts) as the run before, and
\* leaves the same output.
C6_OrderIndependent ==
  (run > 1 /\ k >= 1) =>
    /\ Built => /\ TableMap(total) = TableMap(prevTotal)
                /\ Len(total) = Len(prevTotal)
    /\ pc = "done" => outfile = prevOut

\* The second run saw the records in another order and inserted the keys in
\* another order.
C6_Witness ==
  /\ run = 2 /\ pc = "done" /\ k >= 1
  /\ file # prevFile /\ total # prevTotal /\ Len(total) >= 2
  /\ \E n \in 1..Len(total) : total[n][2] >= 2

\* C7: a completed run leaves in the destination exactly what it wrote,
\* whatever the destination held before; a second run on the same input
\* with the same k leaves the content the first run left.
C7_Idempotent ==
  pc = "done" =>
    /\ outfile = written
    /\ (run > 1 /\ file = prevFile) => outfile = prevOut

\* A second run on the same input, over the non-empty output of the first.
C7_Witness ==
  /\ run = 2 /\ pc = "done" /\ file = prevFile
  /\ dest0 # <<>> /\ Len(total) >= 2 /\ outfile = dest0

\* Every record yielded so far is shorter than kk.
AllShort(recs, kk) == \A r \in 1..Len(recs) : Len(recs[r][2]) < kk

\* C8: for k >= 1, a record whose bases are shorter than k has no window
\* visited and causes no increment; while every record so far is shorter
\* than k the table is empty, and the run that completes writes an empty
\* output.
C8_ShortRecords ==
  k >= 1 =>
    /\ \A r \in 1..Len(yielded) : Len(yielded[r][2]) < k => counted[r] = 0
    /\ (pc = "scan" /\ Len(seq) < k) => i = 0
    /\ AllShort(yielded, k) => total = <<>>
    /\ (pc = "done" /\ AllShort(yielded, k)) => outfile = <<>>

\* A completed run over a record with no bases and a record with fewer than
\* k bases, which emptied a destination that held something.
C8_Witness ==
  /\ pc = "done" /\ k >= 1 /\ AllShort(yielded, k)
  /\ \E r \in 1..Len(yielded) : Len(yielded[r][2]) = 0
  /\ \E r \in 1..Len(yielded) : Len(yielded[r][2]) > 0
  /\ dest0 # <<>> /\ outfile = <<>>

\* The header lines of the raw file: those whose first character is '>'.
RawHeaders(f) == {n \in 1..Len(f) : f[n] # <<>> /\ f[n][1] = ">"}

\* The lines lo..hi of f, each stripped, one after the other.
RECURSIVE StrippedConcat(_, _, _)
StrippedConcat(f, lo, hi) ==
  IF lo > hi THEN <<>> ELSE strip(f[lo]) \o StrippedConcat(f, lo + 1, hi)

\* One record per header line, in file order: the header without '>' and
\* surrounding blanks, and the stripped lines up to the next header line.
ExpectedRecords(f) ==
  LET H == RawHeaders(f) IN
    [b \in 1..Cardinality(H) |->
       <<strip(Tail(f[Nth(H, b)])),
         StrippedConcat(f, Nth(H, b) + 1,
                        IF b < Cardinality(H) THEN Nth(H, b + 1) - 1 ELSE Len(f))>>]

IsBlankLine(l) == strip(l) = <<>>
NotBlankLine(l) == ~IsBlankLine(l)

\* f without its blank lines.
NonBlank(f) == SelectSeq(f, NotBlankLine)

\* f from its first header line on.
DropPreamble(f) ==
  IF RawHeaders(f) = {} THEN <<>> ELSE SubSeq(f, Nth(RawHeaders(f), 1), Len(f))

IsPrefix(a, b) == Len(a) <= Len(b) /\ a = SubSeq(b, 1, Len(a))

\* The generator has run to its end without an input error.
Parsed == gen = "end" /\ pc # "read_error"

\* C9: each time parse_fasta yields, the records yielded so far are the first
\* records of the file in file order, one per header line, with the stripped
\* header as name and the stripped lines up to the next header as bases; at
\* its end it has yielded them all, and the file without its blank lines
\* gives the same records.
C9_ParsedRecords ==
  /\ (pc = "scan" /\ i = 0) => IsPrefix(yielded, ExpectedRecords(file))
  /\ Parsed => /\ yielded = ExpectedRecords(file)
               /\ yielded = ExpectedRecords(NonBlank(file))

\* Two records, one with an empty name, one with a name stripped of blanks
\* and bases joined from two stripped lines.
C9_Witness ==
  /\ Parsed /\ Len(yielded) = 2
  /\ \E r \in 1..2 : yielded[r][1] = <<>>
  /\ \E r \in 1..2 : yielded[r] = <<<<"s">>, <<"a", "a">>>>

\* C10: lines before the first header line are dropped: the records are
\* those of the file from its first header line on, the counts are those of
\* the windows of these records, and a file without a header line gives no
\* record, an empty table and an empty output.
C10_PreambleDropped ==
  Parsed =>
    /\ yielded = ExpectedRecords(DropPreamble(file))
    /\ Len(counted) = Len(ExpectedRecords(DropPreamble(file)))
    /\ k >= 1 => SumCounts(total) =
                   Cardinality(ValidWindows(ExpectedRecords(DropPreamble(file)), k))
    /\ RawHeaders(file) = {} =>
         /\ yielded = <<>>
         /\ total = <<>>
         /\ pc = "done" => outfile = <<>>

\* A completed run on a file whose first header line comes after sequence
\* lines that hold a countable window.
C10_Witness ==
  /\ pc = "done" /\ k >= 1 /\ yielded # <<>>
  /\ Preamble(file) # <<>>
  /\ ValidWindows(<<<<<<>>, StrippedConcat(Preamble(file), 1, Len(Preamble(file)))>>>>, k) # {}

====
